---- MODULE Spec2Model ----
(***************************************************************************)
(* Model of scripts/upload_release.py, the release publisher: it reads the *)
(* project version from CMakeLists.txt, looks a release up by tag on the   *)
(* hosting service, creates it when the lookup does not answer 200, and    *)
(* uploads one local file as an asset of that release.                     *)
(*                                                                         *)
(* Strings are sequences of tokens (<<>> is the empty string); an optional *)
(* value is None (<<>>) or Some(x) (<<x>>).  A line of CMakeLists.txt is a *)
(* sequence over the tokens Marker (the text "set(PROJECT_VER"), Quote (a  *)
(* double quote) and a piece of other text.                                *)
(***************************************************************************)
EXTENDS Integers, Sequences, FiniteSets, TLC

\* ------------------------------------------------------------- bounds
MaxLineLen == 4
MaxLines == 2
MaxRuns == 2
MaxId == 2

\* ---------------------------------------------------------- constants
StatusOK == 200
StatusCreated == 201

\* ------------------------------------------------------ value helpers
None == <<>>
Some(x) == <<x>>
Value(o) == o[1]

\* Python truthiness of an Optional[str]: None and "" are falsy.
Truthy(o) == o # None /\ Value(o) # <<>>

\* a or b
PyOr(a, b) == IF Truthy(a) THEN a ELSE b

Marker == "set(PROJECT_VER"
Quote == "\""
Text == "2.1.0"
Alphabet == {Marker, Quote, Text}

RECURSIVE SeqsUpTo(_, _)
SeqsUpTo(S, n) ==
    IF n = 0 THEN {<<>>}
    ELSE LET shorter == SeqsUpTo(S, n - 1)
         IN  shorter \cup {Append(s, x) : s \in {t \in shorter : Len(t) = n - 1}, x \in S}

Lines == SeqsUpTo(Alphabet, MaxLineLen)

\* CMakeLists.txt: absent (None) or present with a sequence of lines.
ConfigFiles == {None} \cup {Some(ls) : ls \in SeqsUpTo(Lines, MaxLines)}

DeclLine == <<Marker, Quote, Text, Quote>>

\* The configuration files the publisher's runs are explored with.
RunConfigs ==
    { None,
      Some(<<>>),
      Some(<< <<Text>> >>),
      Some(<< DeclLine >>),
      Some(<< <<Marker>> >>),
      Some(<< <<Marker, Quote, Quote>> >>) }

\* ------------------------------------------------ get_project_version
\* line.split("\""): the segments between the quotes, one more than quotes.
RECURSIVE Split(_)
Split(line) ==
    IF line = <<>> THEN << <<>> >>
    ELSE LET rest == Split(Tail(line))
         IN  IF Head(line) = Quote
             THEN << <<>> >> \o rest
             ELSE << <<Head(line)>> \o Head(rest) >> \o Tail(rest)

\* line.startswith("set(PROJECT_VER")
StartsWithMarker(line) == line # <<>> /\ Head(line) = Marker

\* The outcome of get_project_version(): raised (an IndexError from
\* split(...)[1]) or returned a value (None, or the second segment).
RECURSIVE ScanLines(_)
ScanLines(ls) ==
    IF ls = <<>> THEN [raised |-> FALSE, value |-> None]
    ELSE IF StartsWithMarker(Head(ls))
         THEN LET segs == Split(Head(ls))
              IN  IF Len(segs) < 2
                  THEN [raised |-> TRUE, value |-> None]
                  ELSE [raised |-> FALSE, value |-> Some(segs[2])]
         ELSE ScanLines(Tail(ls))

get_project_version(cm) ==
    IF cm = None THEN [raised |-> FALSE, value |-> None]
    ELSE ScanLines(Value(cm))

\* ------------------------------------------------------ main: helpers
MergedPath == <<"build/merged-binary.bin">>
CustomPath == <<"custom.bin">>
DefaultPath(ver) == <<"releases/v">> \o ver \o <<"_kiki.zip">>
DefaultTag(ver) == <<"v">> \o ver

\* token = args.token or os.environ.get("GITHUB_TOKEN")
ResolveTokenValue(a, e) == PyOr(a, e)

SelectFileFileFirst(merged, file, ver) ==
    IF Truthy(file) THEN Value(file)
    ELSE IF merged THEN MergedPath
    ELSE DefaultPath(ver)

\* Determine file to upload
SelectFile(merged, file, ver) ==
    IF merged THEN MergedPath
    ELSE IF Truthy(file) THEN Value(file)
    ELSE DefaultPath(ver)

TagNameIgnoresOverride(tag, ver) == DefaultTag(ver)

\* tag_name = args.tag or f"v{version}"
TagName(tag, ver) == IF Truthy(tag) THEN Value(tag) ELSE DefaultTag(ver)

\* create_release: if tag_name is None: tag_name = f"v{version}"
ReleaseTag(tag, ver) == IF tag = None THEN DefaultTag(ver) ELSE Value(tag)

FileExistsAlways(p, files) == TRUE

\* Path.exists() / os.path.getsize() finding the file
FileExists(p, files) == p \in files

LookupFoundUnless404(status) == status # 404

LookupFoundNever(status) == FALSE

\* response.status_code == 200 after the lookup
LookupFound(status) == status = StatusOK

CreateOkAlways(status) == TRUE

CreateOkAny2xx(status) == status \in {StatusOK, StatusCreated}

\* not (response.status_code != 201) after the creation request
CreateOk(status) == status = StatusCreated

UploadOkAny2xx(status) == status \in {StatusOK, StatusCreated}

\* response.status_code == 201 after the upload
UploadOk(status) == status = StatusCreated

MainOrderVersionFirst == <<"version", "file", "exists", "token", "release", "upload">>

\* The order of main()'s steps.
MainOrder == <<"token", "version", "file", "exists", "release", "upload">>

StepAfter(s) ==
    LET i == CHOOSE k \in 1..Len(MainOrder) : MainOrder[k] = s
    IN  IF i = Len(MainOrder) THEN "done" ELSE MainOrder[i + 1]

\* ---------------------------------------------------------- the state
VARIABLES
    argToken, envToken, argFile, mergedBin, argTag,  \* the invocation
    cmake,          \* CMakeLists.txt
    fs,             \* the paths that exist on disk
    releases,       \* the service's release records
    pc,             \* the step main() is at
    token, version, file_path, tag_name, release,    \* main()'s locals
    log,            \* the HTTP requests of this run, each with its answer
    exitCode,       \* -1 while running
    err,            \* the failure that ended the run
    steps,          \* the steps of main() this run has executed
    runs,           \* invocations so far
    created,        \* creation requests answered 201, over all runs
    honest          \* every lookup so far was answered 200 exactly when the
                    \* service held a release with the tag

vars == <<argToken, envToken, argFile, mergedBin, argTag, cmake, fs, releases,
          pc, token, version, file_path, tag_name, release, log, exitCode,
          err, steps, runs, created, honest>>

inputs == <<argToken, envToken, argFile, mergedBin, argTag, cmake>>

Ids == 1..MaxId
Statuses == {StatusOK, StatusCreated, 404, 422}
NoRelease == [id |-> 0, tag_name |-> <<>>]
RecordsOf(tag) == {[id |-> i, tag_name |-> tag] : i \in Ids}

OptStrings(S) == {None, Some(<<>>)} \cup {Some(s) : s \in S}

\* The tag and the paths an invocation with these inputs can name.
InitVersion(cm) == get_project_version(cm).value
InitPaths(cm) ==
    {MergedPath, CustomPath}
      \cup (IF Truthy(InitVersion(cm)) THEN {DefaultPath(Value(InitVersion(cm)))} ELSE {})
InitReleases(cm, tag) ==
    {{}} \cup (IF Truthy(InitVersion(cm))
               THEN {{[id |-> 1, tag_name |-> TagName(tag, Value(InitVersion(cm)))]}}
               ELSE {})

RunLocals ==
    /\ pc = MainOrder[1]
    /\ token = None
    /\ version = None
    /\ file_path = None
    /\ tag_name = None
    /\ release = NoRelease
    /\ log = <<>>
    /\ exitCode = -1
    /\ err = "none"
    /\ steps = <<>>

Init ==
    /\ argToken \in OptStrings({<<"tok">>})
    /\ envToken \in {None, Some(<<"envtok">>)}
    /\ argFile \in OptStrings({CustomPath})
    /\ mergedBin \in BOOLEAN
    /\ argTag \in OptStrings({<<"custom-tag">>})
    /\ cmake \in RunConfigs
    /\ fs \in SUBSET InitPaths(cmake)
    /\ releases \in InitReleases(cmake, argTag)
    /\ RunLocals
    /\ runs = 1
    /\ created = 0
    /\ honest = TRUE

\* sys.exit(code), or an uncaught exception (exit status 1)
ExitWith(code, e) ==
    /\ pc' = "done"
    /\ exitCode' = code
    /\ err' = e

Continue(step) ==
    /\ pc' = StepAfter(step)
    /\ UNCHANGED <<exitCode, err>>

Entry(kind, tag, rid, answered, status, body) ==
    [kind |-> kind, tag |-> tag, rid |-> rid, answered |-> answered,
     status |-> status, body |-> body]

\* ------------------------------------------------------------ actions
\* main: # Get token
ResolveToken ==
    /\ pc = "token"
    /\ steps' = Append(steps, "token")
    /\ token' = ResolveTokenValue(argToken, envToken)
    /\ IF ~Truthy(token') THEN ExitWith(1, "AuthError") ELSE Continue("token")
    /\ UNCHANGED <<inputs, fs, releases, version, file_path, tag_name, release,
                   log, runs, created, honest>>

\* main: # Get version
ResolveVersion ==
    /\ pc = "version"
    /\ steps' = Append(steps, "version")
    /\ LET r == get_project_version(cmake)
       IN  IF r.raised
           THEN /\ version' = version
                /\ ExitWith(1, "IndexError")
           ELSE /\ version' = r.value
                /\ IF ~Truthy(r.value) THEN ExitWith(1, "ConfigError")
                   ELSE Continue("version")
    /\ UNCHANGED <<inputs, fs, releases, token, file_path, tag_name, release,
                   log, runs, created, honest>>

\* main: # Determine file to upload
DetermineFile ==
    /\ pc = "file"
    /\ steps' = Append(steps, "file")
    /\ file_path' = Some(SelectFile(mergedBin, argFile,
                                    IF version = None THEN <<>> ELSE Value(version)))
    /\ Continue("file")
    /\ UNCHANGED <<inputs, fs, releases, token, version, tag_name, release,
                   log, runs, created, honest>>

\* main: if not file_path.exists(): sys.exit(1)
CheckFile ==
    /\ pc = "exists"
    /\ steps' = Append(steps, "exists")
    /\ IF ~FileExists(Value(file_path), fs) THEN ExitWith(1, "InputError")
       ELSE Continue("exists")
    /\ UNCHANGED <<inputs, fs, releases, token, version, file_path, tag_name,
                   release, log, runs, created, honest>>

\* main: tag_name = ...; create_release up to the lookup's answer
Lookup ==
    /\ pc = "release"
    /\ steps' = Append(steps, "release")
    /\ LET ver == IF version = None THEN <<>> ELSE Value(version)
           tag == ReleaseTag(Some(TagName(argTag, ver)), ver)
           held == \E r \in releases : r.tag_name = tag
       IN  /\ tag_name' = Some(tag)
           /\ \/ \* transport failure: requests.get raises
                 /\ log' = Append(log, Entry("lookup", tag, 0, FALSE, 0, NoRelease))
                 /\ ExitWith(1, "ConnectionError")
                 /\ UNCHANGED <<release, honest>>
              \/ \E status \in Statuses :
                 \E body \in (IF status = StatusOK THEN RecordsOf(tag) ELSE {NoRelease}) :
                   /\ log' = Append(log, Entry("lookup", tag, 0, TRUE, status, body))
                   /\ honest' = (honest /\ (status = StatusOK <=> held)
                                        /\ (status = StatusOK => body \in releases))
                   /\ IF LookupFound(status)
                      THEN /\ release' = body
                           /\ Continue("release")
                      ELSE /\ release' = release
                           /\ pc' = "create"
                           /\ UNCHANGED <<exitCode, err>>
    /\ UNCHANGED <<inputs, fs, releases, token, version, file_path, runs, created>>

\* create_release from the creation request on; main: if not release
Create ==
    /\ pc = "create"
    /\ LET tag == Value(tag_name)
           fresh == {r \in RecordsOf(tag) : \A s \in releases : s.id # r.id}
       IN  \/ /\ log' = Append(log, Entry("create", tag, 0, FALSE, 0, NoRelease))
              /\ ExitWith(1, "ConnectionError")
              /\ UNCHANGED <<release, releases, created>>
           \/ \E status \in Statuses :
              \E body \in (IF status = StatusCreated THEN fresh ELSE {NoRelease}) :
                /\ log' = Append(log, Entry("create", tag, 0, TRUE, status, body))
                /\ IF status = StatusCreated
                   THEN /\ releases' = releases \cup {body}
                        /\ created' = created + 1
                   ELSE UNCHANGED <<releases, created>>
                /\ IF CreateOk(status)
                   THEN /\ release' = body
                        /\ Continue("release")
                   ELSE /\ release' = release
                        /\ ExitWith(1, "ServiceError")
    /\ UNCHANGED <<inputs, fs, token, version, file_path, tag_name, steps, runs,
                   honest>>

\* upload_asset; main: if not upload_asset(...): sys.exit(1)
Upload ==
    /\ pc = "upload"
    /\ steps' = Append(steps, "upload")
    /\ IF ~FileExists(Value(file_path), fs)
       THEN \* os.path.getsize raises before any request
            /\ log' = log
            /\ ExitWith(1, "FileNotFoundError")
       ELSE \/ /\ log' = Append(log, Entry("upload", <<>>, release.id, FALSE, 0, NoRelease))
               /\ ExitWith(1, "ConnectionError")
            \/ \E status \in Statuses :
                 /\ log' = Append(log, Entry("upload", <<>>, release.id, TRUE, status, NoRelease))
                 /\ IF UploadOk(status) THEN ExitWith(0, "none")
                    ELSE ExitWith(1, "ServiceError")
    /\ UNCHANGED <<inputs, fs, releases, token, version, file_path, tag_name,
                   release, runs, created, honest>>

\* The asset file disappears between main's check and upload_asset.
FileRemoved ==
    /\ pc \in {"release", "create", "upload"}
    /\ file_path # None
    /\ Value(file_path) \in fs
    /\ fs' = fs \ {Value(file_path)}
    /\ UNCHANGED <<inputs, releases, pc, token, version, file_path, tag_name,
                   release, log, exitCode, err, steps, runs, created, honest>>

\* The operator invokes the script again with the same command line.
Restart ==
    /\ pc = "done"
    /\ runs < MaxRuns
    /\ runs' = runs + 1
    /\ pc' = MainOrder[1]
    /\ token' = None
    /\ version' = None
    /\ file_path' = None
    /\ tag_name' = None
    /\ release' = NoRelease
    /\ log' = <<>>
    /\ exitCode' = -1
    /\ err' = "none"
    /\ steps' = <<>>
    /\ UNCHANGED <<inputs, fs, releases, created, honest>>

Next ==
    \/ ResolveToken
    \/ ResolveVersion
    \/ DetermineFile
    \/ CheckFile
    \/ Lookup
    \/ Create
    \/ Upload
    \/ FileRemoved
    \/ Restart

Spec == Init /\ [][Next]_vars

\* ------------------------------ get_project_version over bounded files
InitParse ==
    /\ argToken = Some(<<"tok">>)
    /\ envToken = None
    /\ argFile = None
    /\ mergedBin = FALSE
    /\ argTag = None
    /\ cmake \in ConfigFiles
    /\ fs = {}
    /\ releases = {}
    /\ RunLocals
    /\ runs = 1
    /\ created = 0
    /\ honest = TRUE

NextParse ==
    \/ ResolveToken
    \/ ResolveVersion

SpecParse == InitParse /\ [][NextParse]_vars

\* ------------------------------------------------------------- claims
HasKind(k) == \E i \in DOMAIN log : log[i].kind = k
Kinds == [i \in DOMAIN log |-> log[i].kind]
Answered(i, k) == log[i].kind = k /\ log[i].answered
IsPrefix(s, t) == Len(s) <= Len(t) /\ \A i \in DOMAIN s : s[i] = t[i]
CodeOrder == <<"token", "version", "file", "exists", "release", "upload">>

\* C1: a creation request is issued exactly when the lookup was answered with
\* a status other than 200; after a 200 no creation request is made, the
\* record create_release returns is the looked-up one, and its id is the one
\* the upload request goes to.
C1_CreateIffLookupNot200 ==
    (log # <<>> /\ log[1].answered) =>
        /\ log[1].kind = "lookup"
        /\ log[1].status = StatusOK =>
              /\ ~HasKind("create")
              /\ release = log[1].body
              /\ \A i \in DOMAIN log :
                    log[i].kind = "upload" => log[i].rid = log[1].body.id
        /\ (log[1].status # StatusOK /\ pc # "create") =>
              (Len(log) >= 2 /\ log[2].kind = "create")

C1_Witness ==
    /\ pc = "done"
    /\ Len(log) = 2
    /\ Answered(1, "lookup") /\ log[1].status = StatusOK
    /\ log[2].kind = "upload" /\ log[2].rid = log[1].body.id

\* C2: a creation request answered with a status other than 201 ends the run
\* with exit code 1 (the service error) and no upload request is ever issued.
C2_CreateFailureAborts ==
    \A i \in DOMAIN log :
        (Answered(i, "create") /\ log[i].status # StatusCreated) =>
            /\ pc = "done"
            /\ exitCode = 1
            /\ err = "ServiceError"
            /\ ~HasKind("upload")

C2_Witness ==
    \E i \in DOMAIN log : Answered(i, "create") /\ log[i].status = 422

\* C3: a finished run has exit code 0 exactly when it fully succeeded (token
\* and version resolved, file found, release looked up with 200 or created
\* with 201, upload answered 201), and exit code 1 on every failure.
FullSuccess ==
    /\ Truthy(token)
    /\ Truthy(version)
    /\ steps = CodeOrder
    /\ \/ /\ Len(log) = 2
          /\ Answered(1, "lookup") /\ log[1].status = StatusOK
          /\ Answered(2, "upload") /\ log[2].status = StatusCreated
       \/ /\ Len(log) = 3
          /\ Answered(1, "lookup") /\ log[1].status # StatusOK
          /\ Answered(2, "create") /\ log[2].status = StatusCreated
          /\ Answered(3, "upload") /\ log[3].status = StatusCreated

C3_ExitCodeIffSuccess ==
    /\ pc # "done" => (exitCode = -1 /\ err = "none")
    /\ pc = "done" =>
          /\ exitCode \in {0, 1}
          /\ exitCode = 0 <=> FullSuccess
          /\ exitCode = 1 <=> err # "none"

C3_Witness ==
    pc = "done" /\ exitCode = 0 /\ Len(log) = 3

\* C4: against a service that keeps the releases it created and answers the
\* lookup with 200 exactly when it holds a release with the tag, the runs of
\* one command line create at most one release; a run that starts when the
\* release exists issues no creation request.
CreatedThisRun ==
    Cardinality({i \in DOMAIN log :
                    Answered(i, "create") /\ log[i].status = StatusCreated})

C4_CreateOnceOverRuns ==
    honest =>
        /\ created <= 1
        /\ HasKind("create") => created = CreatedThisRun

C4_Witness ==
    /\ runs = 2
    /\ honest
    /\ created = 1
    /\ pc = "done"
    /\ exitCode = 0
    /\ ~HasKind("create")

\* C5: a run issues at most one lookup, one creation and one upload request,
\* in that order; a request that fails (no answer, a creation or an upload
\* not answered 201) is the run's last and the run exits with code 1.
FailedRequest(e) ==
    \/ ~e.answered
    \/ e.kind = "create" /\ e.status # StatusCreated
    \/ e.kind = "upload" /\ e.status # StatusCreated

C5_NoRetrySingleRequests ==
    /\ Kinds \in { <<>>, <<"lookup">>, <<"lookup", "create">>,
                   <<"lookup", "upload">>, <<"lookup", "create", "upload">> }
    /\ \A i \in DOMAIN log :
          /\ FailedRequest(log[i]) => (i = Len(log) /\ pc = "done" /\ exitCode = 1)
          /\ log[i].kind = "upload" => pc = "done"

C5_Witness ==
    /\ pc = "done"
    /\ Kinds = <<"lookup", "create", "upload">>
    /\ FailedRequest(log[3])

\* C6 as stated: an explicit --file path wins whenever it is given, then
\* --merged-bin, then the default path.
C6_FileWins ==
    file_path # None =>
        Value(file_path) =
            IF Truthy(argFile) THEN Value(argFile)
            ELSE IF mergedBin THEN MergedPath
            ELSE DefaultPath(Value(version))

\* C6 amended: --merged-bin wins whenever it is given, also when --file is
\* given too; otherwise a non-empty --file path; otherwise the default path
\* releases/v{version}_kiki.zip.
C6_MergedBinWins ==
    file_path # None =>
        Value(file_path) =
            IF mergedBin THEN <<"build/merged-binary.bin">>
            ELSE IF Truthy(argFile) THEN Value(argFile)
            ELSE <<"releases/v">> \o Value(version) \o <<"_kiki.zip">>

C6_Witness ==
    /\ mergedBin
    /\ Truthy(argFile)
    /\ file_path = Some(<<"build/merged-binary.bin">>)

\* What the command line and the files decide before any step runs.
TokenFails == ~Truthy(PyOr(argToken, envToken))
VersionFails ==
    LET r == get_project_version(cmake) IN r.raised \/ ~Truthy(r.value)
FileMissing ==
    ~VersionFails /\
    (IF mergedBin THEN MergedPath
     ELSE IF Truthy(argFile) THEN Value(argFile)
     ELSE DefaultPath(Value(get_project_version(cmake).value))) \notin fs

\* C7 as stated: the version is resolved and the file checked before the
\* token is resolved, so a run without a version fails on the version and a
\* run without the file fails on the file, also when no token is available.
C7_VersionFirst ==
    pc = "done" =>
        /\ VersionFails => err \in {"ConfigError", "IndexError"}
        /\ (TokenFails /\ FileMissing) => err = "InputError"

\* C7 amended: the steps run in the order resolve token, resolve version,
\* determine the file, check that it exists, ensure release, upload asset;
\* the first failing step in that order decides the error and no later step
\* runs (no token and no version: the token error; no token and no file: the
\* token error).
C7_TokenFirst ==
    /\ IsPrefix(steps, CodeOrder)
    /\ pc = "done" =>
          /\ TokenFails => (err = "AuthError" /\ steps = <<"token">>)
          /\ (~TokenFails /\ VersionFails) =>
                /\ err \in {"ConfigError", "IndexError"}
                /\ steps = <<"token", "version">>
          /\ err = "AuthError" => TokenFails
          /\ err \in {"ConfigError", "IndexError"} => (~TokenFails /\ VersionFails)
          /\ err = "InputError" =>
                (steps = <<"token", "version", "file", "exists">> /\ log = <<>>)
          /\ err \in {"ServiceError", "ConnectionError", "FileNotFoundError"} =>
                Len(steps) >= 5
          /\ err = "none" => steps = CodeOrder

C7_Witness ==
    pc = "done" /\ TokenFails /\ VersionFails /\ err = "AuthError"

\* C8: a missing asset file fails before any request: main's check of a
\* missing file ends the run with exit code 1 and an empty request log, and
\* upload_asset with a missing file ends it with exit code 1 without adding
\* a request.
C8_MissingFileNoRequest ==
    [][ /\ (pc = "exists" /\ Value(file_path) \notin fs) =>
              (pc' = "done" /\ exitCode' = 1 /\ err' = "InputError" /\ log' = <<>>)
        /\ (pc = "upload" /\ Value(file_path) \notin fs) =>
              (pc' = "done" /\ exitCode' = 1 /\ log' = log /\ ~HasKind("upload"))
      ]_vars

C8_Witness ==
    /\ pc = "done"
    /\ err = "FileNotFoundError"
    /\ exitCode = 1
    /\ Kinds = <<"lookup">>

\* The quoted value the first line starting with the marker declares: the
\* text between its first two quotes, when it has two quotes and the text
\* is not empty.
DeclaredVersion(cm) ==
    IF cm = None THEN None
    ELSE LET ls == Value(cm)
             idx == {i \in DOMAIN ls : StartsWithMarker(ls[i])}
         IN  IF idx = {} THEN None
             ELSE LET first == CHOOSE i \in idx : \A j \in idx : i <= j
                      segs == Split(ls[first])
                  IN  IF Len(segs) < 3 \/ segs[2] = <<>> THEN None
                      ELSE Some(segs[2])

\* C9: resolving the version yields the quoted value of the declaration, and
\* ends the run with the "could not read PROJECT_VER" failure (exit code 1)
\* when the file is absent or declares none, a marker line with no quoted
\* value or an empty one included.
C9_VersionOrConfigError ==
    (\E i \in DOMAIN steps : steps[i] = "version") =>
        IF DeclaredVersion(cmake) # None
        THEN version = DeclaredVersion(cmake) /\ err = "none"
        ELSE pc = "done" /\ exitCode = 1 /\ err = "ConfigError"

\* C10: the lookup and the creation request carry the --tag value when a
\* (non-empty) one is given and "v" + version otherwise; the default asset
\* path is releases/v{version}_kiki.zip, built from the version and never
\* from --tag.
C10_TagAndDefaultPath ==
    /\ \A i \in DOMAIN log :
          log[i].kind \in {"lookup", "create"} =>
              log[i].tag = IF Truthy(argTag) THEN Value(argTag)
                           ELSE <<"v">> \o Value(version)
    /\ (file_path # None /\ ~mergedBin /\ ~Truthy(argFile)) =>
          Value(file_path) = <<"releases/v">> \o Value(version) \o <<"_kiki.zip">>

C10_Witness ==
    /\ argTag = None
    /\ version = Some(<<"2.1.0">>)
    /\ Kinds = <<"lookup", "create">>
    /\ log[1].tag = <<"v", "2.1.0">>
    /\ log[2].tag = <<"v", "2.1.0">>
    /\ file_path = Some(<<"releases/v", "2.1.0", "_kiki.zip">>)

====
